---- MODULE Spec2Model ----
(***************************************************************************)
(* A model of the SOCKS5 proxy of src/src/main.rs: the serial accept loop  *)
(* of main, the session driver handle_client, the handshake functions      *)
(* process_method and process_request, the reply framer reply and the      *)
(* readiness relay serve_epoll.  Sockets are byte queues; what the peers   *)
(* and the operating system do (send, close, reset, report readiness,      *)
(* refuse a write, resolve a name) is chosen nondeterministically.         *)
(***************************************************************************)
EXTENDS Naturals, Sequences, FiniteSets

(***************************************************************************)
(* Bounds of the model.                                                    *)
(***************************************************************************)
\* connections that wait in the backlog of the listener at one time
MaxBacklog == 1
\* largest method count N a client offers
MaxMethods == 2
\* payload bytes the client writes during one relay
MaxPayload == 3
\* payload bytes the destination writes during one relay
MaxTargetPayload == 1
\* size of a relay buffer (4096 in the source, scaled down)
BufSize == 2
\* bytes a socket takes from non-blocking writes before its peer reads
SockBuf == 2

(***************************************************************************)
(* Program constants.                                                      *)
(***************************************************************************)
Succeeded == 0
GeneralSOCKSServerFailture == 1
HostUnreachable == 4
ATYP_IPV4 == 1
ATYP_DOMAIN == 3
CMD_CONNECT == 1
NO_AUTH == 0
CLIENT_KEY == 1
TARGET_KEY == 2

(***************************************************************************)
(* Sequences of bytes.                                                     *)
(***************************************************************************)
Min(a, b) == IF a < b THEN a ELSE b

Take(s, n) == SubSeq(s, 1, Min(n, Len(s)))

Drop(s, n) == SubSeq(s, Min(n, Len(s)) + 1, Len(s))

IsPrefix(s, t) == Len(s) <= Len(t) /\ SubSeq(t, 1, Len(s)) = s

Prefixes(s) == { SubSeq(s, 1, k) : k \in 0..Len(s) }

\* u16::from_be_bytes
FromBeBytes(b) == b[1] * 256 + b[2]

\* u16::to_be_bytes
\* the port with its low byte first
ToLeBytes(p) == << p % 256, (p \div 256) % 256 >>

ToBeBytes(p) == << (p \div 256) % 256, p % 256 >>

\* String::from_utf8 on the byte alphabet of the model: a byte below 128 is
\* a one-byte character, and a lone byte of 128 or more is not valid text.
FromUtf8Ok(s) == \A i \in 1..Len(s) : s[i] < 128

(***************************************************************************)
(* Socket addresses: an IPv4 address with its octets, or a non-IPv4 one.   *)
(***************************************************************************)
V4(ip, port) == [kind |-> "v4", ip |-> ip, port |-> port]

V6(port) == [kind |-> "v6", ip |-> <<>>, port |-> port]

NoAddr == [kind |-> "none", ip |-> <<>>, port |-> 0]

\* the address a name of the model resolves to when it resolves to IPv4
ResolvedIp == << 127, 0, 0, 1 >>

\* what the resolver can answer for a name: an IPv4 address, a non-IPv4
\* address, an error, or no address at all
DnsOutcomes == {"v4", "v6", "fail", "empty"}

(***************************************************************************)
(* Pure parts of the handshake and of the reply framer.                    *)
(***************************************************************************)
\* a reply frame that always says version 5
ReplyFrameVersion5(version, code, target_addr) ==
    << 5, code, 0 >>
    \o (IF target_addr.kind = "v4" THEN << ATYP_IPV4 >> \o target_addr.ip ELSE << >>)
    \o ToBeBytes(target_addr.port)

\* the frame reply() builds: the address type and the octets are pushed
\* only for an IPv4 address, the port always
ReplyFrame(version, code, target_addr) ==
    << version, code, 0 >>
    \o (IF target_addr.kind = "v4" THEN << ATYP_IPV4 >> \o target_addr.ip ELSE << >>)
    \o ToBeBytes(target_addr.port)

\* Read::read_exact of n bytes from a blocking socket whose unread input is
\* buf; term says the peer has ended its stream (no byte will follow).
\* The call blocks while fewer than n bytes are there and more may come;
\* at the end of the stream it fails and has consumed what was there.
ReadExact(buf, n, term) ==
    IF Len(buf) >= n
    THEN [st |-> "ok", data |-> Take(buf, n), rest |-> Drop(buf, n)]
    ELSE IF term
         THEN [st |-> "err", data |-> << >>, rest |-> << >>]
         ELSE [st |-> "block", data |-> << >>, rest |-> buf]

\* the reads and the decision of process_method, up to its write
MethodRead(buf, term) ==
    LET hd == ReadExact(buf, 2, term) IN
    IF hd.st # "ok"
    THEN [st |-> hd.st, version |-> 0, num_methods |-> 0, rest |-> hd.rest]
    ELSE LET version     == hd.data[1]
             num_methods == hd.data[2]
             ms          == ReadExact(hd.rest, num_methods, term)
         IN  [st |-> ms.st, version |-> version, num_methods |-> num_methods,
              rest |-> ms.rest]

\* "no acceptable methods" answered
MethodResponseNoAcceptable(version) == << version, 255 >>

\* the two bytes process_method answers
MethodResponse(version) == << version, NO_AUTH >>

(***************************************************************************)
(* The text form of a port.  The domain branch of process_request does     *)
(* not hand the port to the resolver as a number: it formats the text      *)
(* "name:port" and has to_socket_addrs() read the text back.  Characters   *)
(* are their ASCII codes: a digit d is 48 + d.                             *)
(***************************************************************************)
RECURSIVE DecDigits(_)
\* Display of an unsigned integer: decimal, no leading zero
DecDigits(n) ==
    IF n < 10 THEN << 48 + n >> ELSE DecDigits(n \div 10) \o << 48 + (n % 10) >>

IsDigits(s) == s # << >> /\ \A i \in 1..Len(s) : s[i] \in 48..57

RECURSIVE DecValue(_)
\* the number a text of digits denotes
DecValue(s) ==
    IF s = << >> THEN 0
    ELSE DecValue(SubSeq(s, 1, Len(s) - 1)) * 10 + (s[Len(s)] - 48)

\* a port: digits whose value fits 16 bits
PortOk(s) == IsDigits(s) /\ Len(s) <= 5 /\ DecValue(s) <= 65535

\* the port of the text "name:port" as to_socket_addrs() reads it
ParsePort(s) == IF PortOk(s) THEN DecValue(s) ELSE 0

\* to_socket_addrs().unwrap().next().unwrap() on "domain:port": the answer
\* of the resolver decides; an empty name never resolves
Resolve(domain, port, dns) ==
    IF domain = << >>
    THEN [st |-> "panic", addr |-> NoAddr, why |-> "noname"]
    ELSE IF dns \in {"fail", "empty"}
    THEN [st |-> "panic", addr |-> NoAddr, why |-> "resolve"]
    ELSE IF dns = "v4"
         THEN [st |-> "ok", addr |-> V4(ResolvedIp, ParsePort(DecDigits(port))), why |-> "none"]
         ELSE [st |-> "ok", addr |-> V6(ParsePort(DecDigits(port))), why |-> "none"]

\* the value of a one-element set.  The operators below bind the result of
\* a read as the element of such a set, so that the read is evaluated once
\* wherever the operator is used.
Only(S) == CHOOSE x \in S : TRUE

\* the IPv4 branch of process_request, after the 4 header bytes
RequestIpv4(buf, term) ==
    Only({ IF ip.st # "ok"
           THEN [st |-> ip.st, addr |-> NoAddr, rest |-> ip.rest, why |-> "short"]
           ELSE Only({ IF port.st # "ok"
                       THEN [st |-> port.st, addr |-> NoAddr, rest |-> port.rest,
                             why |-> "short"]
                       ELSE [st |-> "ok",
                             addr |-> V4(ip.data, FromBeBytes(port.data)),
                             rest |-> port.rest, why |-> "none"]
                       : port \in { ReadExact(ip.rest, 2, term) } })
           : ip \in { ReadExact(buf, 4, term) } })

\* the domain-name branch, after the name was read as valid text
RequestDomainPort(domain, buf, term, dns) ==
    Only({ IF port.st # "ok"
           THEN [st |-> port.st, addr |-> NoAddr, rest |-> port.rest, why |-> "short"]
           ELSE Only({ [st |-> r.st, addr |-> r.addr, rest |-> port.rest,
                        why |-> r.why]
                       : r \in { Resolve(domain, FromBeBytes(port.data), dns) } })
           : port \in { ReadExact(buf, 2, term) } })

\* the domain-name branch of process_request, after the 4 header bytes
RequestDomain(buf, term, dns) ==
    Only({ IF len.st # "ok"
           THEN [st |-> len.st, addr |-> NoAddr, rest |-> len.rest, why |-> "short"]
           ELSE Only({ IF domain.st # "ok"
                       THEN [st |-> domain.st, addr |-> NoAddr,
                             rest |-> domain.rest, why |-> "short"]
                       ELSE IF ~FromUtf8Ok(domain.data)
                       THEN [st |-> "err", addr |-> NoAddr, rest |-> domain.rest,
                             why |-> "utf8"]
                       ELSE RequestDomainPort(domain.data, domain.rest, term, dns)
                       : domain \in { ReadExact(len.rest, len.data[1], term) } })
           : len \in { ReadExact(buf, 1, term) } })

\* process_request: the header, the command check, then the address
RequestRead(buf, term, dns) ==
    Only({ IF hd.st # "ok"
           THEN [st |-> hd.st, addr |-> NoAddr, rest |-> hd.rest, why |-> "short"]
           ELSE LET cmd       == hd.data[2]
                    addr_type == hd.data[4]
                IN  IF cmd # CMD_CONNECT
                    THEN [st |-> "err", addr |-> NoAddr, rest |-> hd.rest,
                          why |-> "cmd"]
                    ELSE IF addr_type = ATYP_IPV4 THEN RequestIpv4(hd.rest, term)
                    ELSE IF addr_type = ATYP_DOMAIN
                         THEN RequestDomain(hd.rest, term, dns)
                    ELSE [st |-> "err", addr |-> NoAddr, rest |-> hd.rest,
                          why |-> "atyp"]
           : hd \in { ReadExact(buf, 4, term) } })

(***************************************************************************)
(* What the clients of the model send.                                     *)
(***************************************************************************)
Versions == {4, 5}

MethodBytes == {0, 2}

\* a method-selection message [version, N, N method bytes]
MethodMsgs ==
    UNION { { << v, n >> \o [i \in 1..n |-> ms[i]] : ms \in [1..n -> MethodBytes] }
            : v \in Versions, n \in 0..MaxMethods }

\* the port 443, both bytes nonzero
PortBytes == << 1, 187 >>

\* an empty name, the name "a", and a name that is not valid text
Domains == { << >>, << 97 >>, << 255 >> }

\* the address part of a connect request, by address type
AddressFields(atyp) ==
    IF atyp = ATYP_IPV4 THEN { << 127, 0, 0, 1 >> \o PortBytes }
    ELSE IF atyp = ATYP_DOMAIN THEN { << Len(d) >> \o d \o PortBytes : d \in Domains }
    ELSE { PortBytes }

\* a connect request [version, CMD, 0, ATYP, address, port]; the commands
\* are CONNECT (1) and BIND (2), the address types IPv4, domain, IPv6 (4)
RequestMsgs ==
    UNION { { << v, CMD_CONNECT, 0, atyp >> \o a : a \in AddressFields(atyp) }
            : v \in Versions, atyp \in {ATYP_IPV4, ATYP_DOMAIN, 4} }
    \cup { << v, 2, 0, ATYP_IPV4 >> \o a : v \in Versions, a \in AddressFields(ATYP_IPV4) }

\* what a client sends for its handshake: the two messages, or a part of
\* them when it stops early
Scripts == UNION { Prefixes(m \o r) : m \in MethodMsgs, r \in RequestMsgs }

\* the i-th payload byte a client, or a destination, writes into a relay
ClientByte(i) == 100 + i

TargetByte(i) == 200 + i

(***************************************************************************)
(* The state.                                                              *)
(***************************************************************************)
VARIABLES
    pc,             \* where main / handle_client / serve_epoll stands
    pending,        \* connections waiting in the listener's backlog
    cin,            \* client socket: bytes sent by the client, not yet read
    cstate,         \* client peer: "open", "eof" (it closed), "reset"
    cout,           \* client socket: bytes delivered to the client
    tin,            \* target socket: bytes sent by the destination, not yet read
    tstate,         \* destination peer: "open", "eof", "reset"
    tout,           \* target socket: bytes delivered to the destination
    tfull,          \* bytes in the target socket the destination has not read
    csent,          \* payload the client has written after its handshake
    tsent,          \* payload the destination has written
    version,        \* handle_client: version
    target_addr,    \* handle_client: target_addr
    events,         \* serve_epoll: the events of the batch not yet handled
    client_closed,  \* serve_epoll: client_closed
    target_closed,  \* serve_epoll: target_closed
    sess            \* what has happened in the current session

vars == << pc, pending, cin, cstate, cout, tin, tstate,
           tout, tfull, csent, tsent, version, target_addr, events, client_closed,
           target_closed, sess >>

sockets == << cin, cstate, cout, tin, tstate, tout, csent, tsent >>

room == << tfull >>

locals == << version, target_addr, events, client_closed, target_closed >>

listener == << pending >>

\* the record of a session at its start
NewSession ==
    [ method     |-> "none",  \* process_method: "none", "ok", "err"
      response   |-> << >>,   \* the bytes process_method passed to write_all
      request    |-> "none",  \* process_request: "none", "ok", "err", "panic"
      why        |-> "none",  \* its error: "short", "cmd", "atyp", "utf8",
                              \* "noname" (an empty name), "resolve"
      dial       |-> "none",  \* TcpStream::connect: "none", "ok", "fail"
      replies    |-> << >>,   \* the calls of reply(): code, frame, outcome
      relay      |-> "none",  \* serve_epoll: "none", "running", "ok", "err"
      relayErr   |-> "none",  \* its error: "poller", "wouldblock", "io"
      spurious   |-> FALSE,   \* a socket was reported ready that was not readable
      rdC        |-> << >>,   \* bytes the relay has read from the client
      rdT        |-> << >>,   \* bytes the relay has read from the destination
      wrC        |-> << >>,   \* bytes the relay has delivered to the client
      clientShut |-> FALSE,   \* client_stream.shutdown(Both) was called
      targetShut |-> FALSE ]  \* target_stream.shutdown(Both) was called

Init ==
    /\ pc = "accept"
    /\ pending = 0
    /\ cin = << >> /\ cstate = "open" /\ cout = << >>
    /\ tin = << >> /\ tstate = "open" /\ tout = << >>
    /\ csent = << >> /\ tsent = << >>
    /\ tfull = 0
    /\ version = 0
    /\ target_addr = NoAddr
    /\ events = << >>
    /\ client_closed = FALSE
    /\ target_closed = FALSE
    /\ sess = NewSession

(***************************************************************************)
(* The sockets as the program sees them.                                   *)
(***************************************************************************)
\* how many bytes of buf a write_all gets into the socket of a peer in
\* state peer, free being the room left in the socket: all of them when it
\* succeeds, fewer when it fails.  A reset peer takes nothing; a peer that
\* has closed may be gone, and then takes nothing; a blocking socket waits
\* for room; a non-blocking socket takes what it has room for and then
\* fails with WouldBlock.
WriteCuts(peer, buf, free, nonblocking) ==
    LET fits == IF nonblocking THEN Min(Len(buf), free) ELSE Len(buf) IN
    IF peer = "reset" THEN {0}
    ELSE IF peer = "eof" THEN {0, fits}
    ELSE {fits}

\* the room in the client socket: the clients of the model read what they
\* are sent at once, so a chunk always fits
ClientRoom == BufSize

\* the error a failed write reports: the peer is there and the socket is
\* full, or the peer is gone
WriteError(peer) == IF peer = "open" THEN "wouldblock" ELSE "io"

\* a socket is readable: data, an end of stream or an error is waiting
Readable(buf, peer) == buf # << >> \/ peer # "open"

ReadyKeys ==
    (IF Readable(cin, cstate) THEN {CLIENT_KEY} ELSE {})
    \cup (IF Readable(tin, tstate) THEN {TARGET_KEY} ELSE {})

\* the batches poller.wait can deliver over a set of keys: each key at
\* most once, in any order
BatchesOver(keys) ==
    { << k >> : k \in keys }
    \cup { b \in { << k1, k2 >> : k1 \in keys, k2 \in keys } : b[1] # b[2] }

BatchKeys(batch) == { batch[i] : i \in 1..Len(batch) }

SessionActive == pc \notin {"accept", "done", "panicked"}

(***************************************************************************)
(* main: the accept loop.                                                  *)
(***************************************************************************)
\* a client connects to the listening socket
ClientConnects ==
    /\ pc # "panicked"
    /\ pending < MaxBacklog
    /\ pending' = pending + 1
    /\ UNCHANGED << room, pc, sockets, locals, sess >>

\* listener.incoming() yields Err (the connection was aborted before it
\* was accepted): nothing is done, the loop goes on
AcceptError ==
    /\ pc = "accept"
    /\ pending > 0
    /\ pending' = pending - 1
    /\ UNCHANGED << room, pc, sockets, locals, sess >>

\* the locals and the sockets of a session that has not begun
NoSession ==
    /\ cin' = << >> /\ cstate' = "open" /\ cout' = << >>
    /\ tin' = << >> /\ tstate' = "open" /\ tout' = << >>
    /\ csent' = << >> /\ tsent' = << >>
    /\ tfull' = 0
    /\ version' = 0
    /\ target_addr' = NoAddr
    /\ events' = << >>
    /\ client_closed' = FALSE
    /\ target_closed' = FALSE
    /\ sess' = NewSession

\* listener.incoming() yields a connection: handle_client is called on it;
\* the client's handshake bytes are on their way
Accept ==
    /\ pc = "accept"
    /\ pending > 0
    /\ pending' = pending - 1
    /\ \E sc \in Scripts : cin' = sc
    /\ pc' = "method"
    /\ UNCHANGED << room, cstate, cout, tin, tstate, tout,
                    csent, tsent, locals, sess >>

(***************************************************************************)
(* handle_client: the handshake, the dial and the reply.                   *)
(***************************************************************************)
\* a handshake that goes on to the request whatever process_method returned
AfterMethodIgnoresError(ok) == "request"

\* where handle_client goes after process_method
AfterMethod(ok) == IF ok THEN "request" ELSE "client_shutdown"

ProcessMethod ==
    /\ pc = "method"
    /\ \E r \in { MethodRead(cin, cstate # "open") } :
       /\ r.st # "block"
       /\ cin' = r.rest
       /\ IF r.st = "ok"
          THEN LET resp == MethodResponse(r.version) IN
               \E k \in WriteCuts(cstate, resp, 0, FALSE) :
                  /\ cout' = cout \o Take(resp, k)
                  /\ version' = IF k = Len(resp) THEN r.version ELSE version
                  /\ pc' = AfterMethod(k = Len(resp))
                  /\ sess' = [sess EXCEPT
                                !.method   = IF k = Len(resp) THEN "ok" ELSE "err",
                                !.response = resp]
          ELSE /\ pc' = AfterMethod(FALSE)
               /\ sess' = [sess EXCEPT !.method = "err"]
               /\ UNCHANGED << room, cout, version >>
    /\ UNCHANGED << room, listener, cstate, tin, tstate, tout, csent, tsent,
                    target_addr, events, client_closed, target_closed >>

\* a handshake error answered with a failure reply
AfterRequestRepliesOnError(st) ==
    IF st = "ok" THEN "connect"
    ELSE IF st = "panic" THEN "panicked"
    ELSE "reply_fail"

\* where handle_client goes after process_request; a panic of the unwrap
\* of the resolution unwinds main
AfterRequest(st) ==
    IF st = "ok" THEN "connect"
    ELSE IF st = "panic" THEN "panicked"
    ELSE "client_shutdown"

ProcessRequest ==
    /\ pc = "request"
    /\ \E dns \in DnsOutcomes :
          \E r \in { RequestRead(cin, cstate # "open", dns) } :
          /\ r.st # "block"
          /\ cin' = r.rest
          /\ target_addr' = r.addr
          /\ pc' = AfterRequest(r.st)
          /\ sess' = [sess EXCEPT !.request = r.st, !.why = r.why]
    /\ UNCHANGED << room, listener, cstate, cout, tin, tstate, tout, csent, tsent,
                    version, events, client_closed, target_closed >>

\* a failed dial that ends the session without a reply
AfterConnectSilentFailure(ok) == IF ok THEN "reply_ok" ELSE "client_shutdown"

\* where handle_client goes after TcpStream::connect
AfterConnect(ok) == IF ok THEN "reply_ok" ELSE "reply_fail"

Connect ==
    /\ pc = "connect"
    /\ \E ok \in BOOLEAN :
          /\ pc' = AfterConnect(ok)
          /\ sess' = [sess EXCEPT !.dial = IF ok THEN "ok" ELSE "fail"]
    /\ UNCHANGED << room, listener, sockets, locals >>

\* reply(): the frame is written to the client socket and flushed
Reply(code, okPc, errPc) ==
    LET frame == ReplyFrame(version, code, target_addr) IN
    \E k \in WriteCuts(cstate, frame, 0, FALSE) :
       /\ cout' = cout \o Take(frame, k)
       /\ sess' = [sess EXCEPT !.replies =
                      Append(@, [code |-> code, frame |-> frame,
                                 ok |-> (k = Len(frame))])]
       /\ pc' = IF k = Len(frame) THEN okPc ELSE errPc
       /\ UNCHANGED << room, listener, cin, cstate, tin, tstate, tout, csent, tsent,
                       locals >>

\* the outcome of the reply write ignored
AfterReplyIgnoresError(ok) == "serve"

\* where handle_client goes after the Succeeded reply
AfterReply(ok) == IF ok THEN "serve" ELSE "target_shutdown"

ReplySucceeded ==
    /\ pc = "reply_ok"
    /\ Reply(Succeeded, AfterReply(TRUE), AfterReply(FALSE))

\* another failure status
FailureCodeHostUnreachable == HostUnreachable

\* the status the failure branch of handle_client replies
FailureCode == GeneralSOCKSServerFailture

ReplyFailure ==
    /\ pc = "reply_fail"
    /\ Reply(FailureCode, "client_shutdown", "client_shutdown")

TargetShutdown ==
    /\ pc = "target_shutdown"
    /\ sess' = [sess EXCEPT !.targetShut = TRUE]
    /\ pc' = "client_shutdown"
    /\ UNCHANGED << room, listener, sockets, locals >>

\* the last statement of handle_client
ClientShutdown ==
    /\ pc = "client_shutdown"
    /\ sess' = [sess EXCEPT !.clientShut = TRUE]
    /\ pc' = "done"
    /\ UNCHANGED << room, listener, sockets, locals >>

\* handle_client returns, its streams are dropped, and main is back in
\* listener.incoming()
Return ==
    /\ pc = "done"
    /\ pc' = "accept"
    /\ NoSession
    /\ UNCHANGED listener

(***************************************************************************)
(* serve_epoll: the relay.                                                 *)
(***************************************************************************)
\* serve_epoll ends and the shutdown of the target socket is skipped
RelayReturnsSkipsTargetShutdown(result, err) ==
    /\ pc' = "client_shutdown"
    /\ sess' = [sess EXCEPT !.relay = result, !.relayErr = err]

\* serve_epoll ends: handle_client goes on to the shutdown of the target
RelayReturns(result, err) ==
    /\ pc' = "target_shutdown"
    /\ sess' = [sess EXCEPT !.relay = result, !.relayErr = err]

\* set_nonblocking, Poller::new, poller.add: any of them may fail
ServeSetup ==
    /\ pc = "serve"
    /\ \E ok \in BOOLEAN :
          IF ok
          THEN /\ pc' = "wait"
               /\ sess' = [sess EXCEPT !.relay = "running"]
          ELSE RelayReturns("err", "poller")
    /\ UNCHANGED << room, listener, sockets, locals >>

\* the top of the loop: the flags are cleared and poller.wait delivers a
\* batch of events of sockets that are readable
Wait ==
    /\ pc = "wait"
    /\ \E batch \in BatchesOver(ReadyKeys) : events' = batch
    /\ client_closed' = FALSE
    /\ target_closed' = FALSE
    /\ pc' = "events"
    /\ UNCHANGED << room, listener, sockets, version, target_addr, sess >>

\* poller.wait delivers a batch with an event of a socket that is not
\* readable (a spurious readiness)
WaitSpurious ==
    /\ pc = "wait"
    /\ \E batch \in BatchesOver({CLIENT_KEY, TARGET_KEY}) :
          /\ ~(BatchKeys(batch) \subseteq ReadyKeys)
          /\ events' = batch
    /\ client_closed' = FALSE
    /\ target_closed' = FALSE
    /\ pc' = "events"
    /\ sess' = [sess EXCEPT !.spurious = TRUE]
    /\ UNCHANGED << room, listener, sockets, version, target_addr >>

\* poller.wait fails
WaitFails ==
    /\ pc = "wait"
    /\ RelayReturns("err", "poller")
    /\ UNCHANGED << room, listener, sockets, locals >>

\* what a non-blocking read of a socket returns: bytes when there are any,
\* else Ok(0) at the end of the stream, Err(WouldBlock) when the peer is
\* there and has sent nothing, another Err when the connection was reset
ReadOutcome(buf, peer) ==
    IF buf # << >> THEN "data"
    ELSE IF peer = "eof" THEN "zero"
    ELSE IF peer = "open" THEN "wouldblock"
    ELSE "error"

\* the bytes one read of the relay takes: what is there, up to a buffer
ReadChunk(buf) == Take(buf, BufSize)

\* a relay that writes what it read from the client back to the client
ClientChunkGoesToClient == "client"

\* the socket a chunk read from the client is written to
ClientChunkGoesTo == "target"

\* event key 1: one read of the client socket, and the write to the target
HandleClientEvent ==
    /\ pc = "events"
    /\ events # << >>
    /\ Head(events) = CLIENT_KEY
    /\ IF cin # << >>
       THEN LET chunk == ReadChunk(cin) IN
            \E k \in WriteCuts(tstate, chunk, SockBuf - tfull, TRUE) :
               /\ cin' = Drop(cin, Len(chunk))
               /\ IF ClientChunkGoesTo = "target"
                  THEN /\ tout' = tout \o Take(chunk, k) /\ tfull' = tfull + k
                       /\ cout' = cout
                  ELSE /\ cout' = cout \o Take(chunk, k)
                       /\ tout' = tout /\ tfull' = tfull
               /\ IF k = Len(chunk)
                  THEN /\ events' = Tail(events)
                       /\ pc' = pc
                       /\ sess' = [sess EXCEPT !.rdC = @ \o chunk]
                  ELSE /\ events' = events
                       /\ pc' = "target_shutdown"
                       /\ sess' = [sess EXCEPT !.rdC = @ \o chunk,
                                               !.relay = "err",
                                               !.relayErr = WriteError(tstate)]
               /\ UNCHANGED client_closed
       ELSE \* Ok(0) at the end of the stream, Err otherwise (WouldBlock too)
            /\ client_closed' = TRUE
            /\ events' = Tail(events)
            /\ UNCHANGED << room, pc, cin, tout, cout, sess >>
    /\ UNCHANGED << listener, cstate, tin, tstate, csent, tsent, version,
                    target_addr, target_closed >>

\* event key 2: one read of the target socket, and the write to the client
HandleTargetEvent ==
    /\ pc = "events"
    /\ events # << >>
    /\ Head(events) = TARGET_KEY
    /\ IF tin # << >>
       THEN LET chunk == ReadChunk(tin) IN
            \E k \in WriteCuts(cstate, chunk, ClientRoom, TRUE) :
               /\ tin' = Drop(tin, Len(chunk))
               /\ cout' = cout \o Take(chunk, k)
               /\ IF k = Len(chunk)
                  THEN /\ events' = Tail(events)
                       /\ pc' = pc
                       /\ sess' = [sess EXCEPT !.rdT = @ \o chunk,
                                               !.wrC = @ \o Take(chunk, k)]
                  ELSE /\ events' = events
                       /\ pc' = "target_shutdown"
                       /\ sess' = [sess EXCEPT !.rdT = @ \o chunk,
                                               !.wrC = @ \o Take(chunk, k),
                                               !.relay = "err",
                                               !.relayErr = WriteError(cstate)]
               /\ UNCHANGED target_closed
       ELSE /\ target_closed' = TRUE
            /\ events' = Tail(events)
            /\ UNCHANGED << pc, tin, cout, sess >>
    /\ UNCHANGED << room, listener, cin, cstate, tstate, tout, csent, tsent,
                    version, target_addr, client_closed >>

\* a break test that leaves the loop only when both sides are closed
LoopBreaksWhenBothClosed(cc, tc) == cc /\ tc

\* the break test at the end of an iteration
LoopBreaks(cc, tc) == cc \/ tc

\* after the batch: poller.modify for both sockets, then the break test
Rearm ==
    /\ pc = "events"
    /\ events = << >>
    /\ \E ok \in BOOLEAN :
          IF ~ok THEN RelayReturns("err", "poller")
          ELSE IF LoopBreaks(client_closed, target_closed)
               THEN RelayReturns("ok", "none")
          ELSE pc' = "wait" /\ sess' = sess
    /\ UNCHANGED << room, listener, sockets, locals >>

(***************************************************************************)
(* The peers.                                                              *)
(***************************************************************************)
\* the client writes its next payload byte, once the destination is dialed
ClientWrite ==
    /\ SessionActive /\ sess.dial = "ok" /\ ~sess.clientShut
    /\ cstate = "open"
    /\ Len(csent) < MaxPayload
    /\ cin' = Append(cin, ClientByte(Len(csent) + 1))
    /\ csent' = Append(csent, ClientByte(Len(csent) + 1))
    /\ UNCHANGED << room, pc, listener, cstate, cout, tin, tstate, tout, tsent,
                    locals, sess >>

\* the client closes its side: the end of its stream follows its data
ClientClose ==
    /\ SessionActive /\ ~sess.clientShut
    /\ cstate = "open"
    /\ cstate' = "eof"
    /\ UNCHANGED << room, pc, listener, cin, cout, tin, tstate, tout, csent, tsent,
                    locals, sess >>

\* the client connection is reset: unread data is lost, reads and writes fail
ClientReset ==
    /\ SessionActive /\ ~sess.clientShut
    /\ cstate # "reset"
    /\ cstate' = "reset"
    /\ cin' = << >>
    /\ UNCHANGED << room, pc, listener, cout, tin, tstate, tout, csent, tsent,
                    locals, sess >>

TargetWrite ==
    /\ SessionActive /\ sess.dial = "ok" /\ ~sess.targetShut
    /\ tstate = "open"
    /\ Len(tsent) < MaxTargetPayload
    /\ tin' = Append(tin, TargetByte(Len(tsent) + 1))
    /\ tsent' = Append(tsent, TargetByte(Len(tsent) + 1))
    /\ UNCHANGED << room, pc, listener, cin, cstate, cout, tstate, tout, csent,
                    locals, sess >>

TargetClose ==
    /\ SessionActive /\ sess.dial = "ok" /\ ~sess.targetShut
    /\ tstate = "open"
    /\ tstate' = "eof"
    /\ UNCHANGED << room, pc, listener, cin, cstate, cout, tin, tout, csent, tsent,
                    locals, sess >>

TargetReset ==
    /\ SessionActive /\ sess.dial = "ok" /\ ~sess.targetShut
    /\ tstate # "reset"
    /\ tstate' = "reset"
    /\ tin' = << >>
    /\ UNCHANGED << room, pc, listener, cin, cstate, cout, tout, csent, tsent,
                    locals, sess >>

\* the destination reads what the relay has sent it
TargetReads ==
    /\ SessionActive
    /\ tfull > 0
    /\ tfull' = 0
    /\ UNCHANGED << pc, listener, sockets, locals, sess >>

(***************************************************************************)
(* The specification.                                                      *)
(***************************************************************************)
\* the steps of the program that need nothing but the state they wait for
ProgramStep ==
    \/ Accept
    \/ ProcessMethod
    \/ ProcessRequest
    \/ Connect
    \/ ReplySucceeded
    \/ ReplyFailure
    \/ ServeSetup
    \/ Wait
    \/ HandleClientEvent
    \/ HandleTargetEvent
    \/ Rearm
    \/ TargetShutdown
    \/ ClientShutdown
    \/ Return

\* what the peers, the network and the operating system do
Environment ==
    \/ ClientConnects
    \/ AcceptError
    \/ WaitSpurious
    \/ WaitFails
    \/ ClientWrite
    \/ ClientClose
    \/ ClientReset
    \/ TargetWrite
    \/ TargetClose
    \/ TargetReset
    \/ TargetReads

Next == ProgramStep \/ Environment

Spec == Init /\ [][Next]_vars

\* the program is scheduled: a step it can take is eventually taken; the
\* peers and the network promise nothing
FairSpec == Spec /\ WF_vars(ProgramStep)

(***************************************************************************)
(* The address codec on its own: process_request decodes an IPv4 request   *)
(* and reply() encodes the decoded address, over a range of octets and     *)
(* port bytes that the sessions above do not go through.                   *)
(***************************************************************************)
\* the bytes an octet or a port byte is drawn from: the ends of the range
\* and two values between
CodecOctets == {0, 1, 127, 255}

\* CONNECT requests of address type IPv4
CodecRequests ==
    { << 5, CMD_CONNECT, 0, ATYP_IPV4, a, b, c, d, hi, lo >> :
        a \in CodecOctets, b \in CodecOctets, c \in CodecOctets,
        d \in CodecOctets, hi \in CodecOctets, lo \in CodecOctets }

\* a session after process_method has answered, the connect request waiting
\* in the client socket
CodecInit ==
    /\ pc = "request"
    /\ pending = 0
    /\ cin \in CodecRequests
    /\ cstate = "open" /\ cout = MethodResponse(5)
    /\ tin = << >> /\ tstate = "open" /\ tout = << >>
    /\ csent = << >> /\ tsent = << >>
    /\ tfull = 0
    /\ version = 5
    /\ target_addr = NoAddr
    /\ events = << >>
    /\ client_closed = FALSE
    /\ target_closed = FALSE
    /\ sess = [NewSession EXCEPT !.method = "ok", !.response = MethodResponse(5)]

\* decode, dial, encode
CodecNext == ProcessRequest \/ Connect \/ ReplySucceeded \/ ReplyFailure

CodecSpec == CodecInit /\ [][CodecNext]_vars

(***************************************************************************)
(* Notions the properties share.                                           *)
(***************************************************************************)
\* both steps of the handshake returned Ok
HandshakeOk == sess.method = "ok" /\ sess.request = "ok"

\* the handshake returned Err
HandshakeFailed == sess.method = "err" \/ sess.request = "err"

\* serve_epoll was entered
RelayStarted == sess.relay # "none"

\* the relay has moved a byte: read one from a socket or delivered one
RelayMovedBytes ==
    sess.rdC # << >> \/ sess.rdT # << >> \/ sess.wrC # << >> \/ tout # << >>

\* handle_client has run to its end
SessionOver == pc = "done"

\* the session waits for its peers: no step of the program can be taken
\* until a peer sends, closes or resets
Stalled ==
    \/ pc = "method" /\ MethodRead(cin, cstate # "open").st = "block"
    \/ pc = "request"
         /\ \A dns \in DnsOutcomes : RequestRead(cin, cstate # "open", dns).st = "block"
    \/ pc = "wait" /\ ReadyKeys = {}

(***************************************************************************)
(* C1.  The relay starts only after the handshake succeeded, the dial      *)
(* succeeded and the single reply, Succeeded, was written without error;   *)
(* when the write of the Succeeded reply fails, serve_epoll is not entered *)
(* and no byte is moved between the sockets.                               *)
(***************************************************************************)
C1_RelayOnlyAfterSucceededReply ==
    /\ (RelayStarted \/ RelayMovedBytes) =>
          /\ HandshakeOk
          /\ sess.dial = "ok"
          /\ Len(sess.replies) = 1
          /\ sess.replies[1].code = Succeeded
          /\ sess.replies[1].ok
    /\ (sess.replies # << >> /\ ~sess.replies[1].ok) =>
          ~RelayStarted /\ ~RelayMovedBytes

\* the relay runs and has delivered client bytes to the destination
C1_Witness ==
    /\ sess.relay = "running"
    /\ tout # << >>
    /\ sess.replies[1].ok

(***************************************************************************)
(* C2.  reply() is called at most once in a session, exactly once in a     *)
(* session whose handshake succeeded (with code Succeeded or               *)
(* GeneralSOCKSServerFailure), and before the relay moves a byte: what the *)
(* client has received is the method response, then the one reply frame,   *)
(* then the relayed bytes.                                                 *)
(***************************************************************************)
C2_ReplyExactlyOnceBeforeRelay ==
    /\ Len(sess.replies) <= 1
    /\ (SessionOver /\ HandshakeOk) =>
          /\ Len(sess.replies) = 1
          /\ sess.replies[1].code \in {Succeeded, GeneralSOCKSServerFailture}
    /\ (RelayStarted \/ RelayMovedBytes) =>
          /\ Len(sess.replies) = 1
          /\ cout = sess.response \o sess.replies[1].frame \o sess.wrC

\* a session is over in which the reply was followed by relayed bytes
C2_Witness ==
    /\ SessionOver
    /\ HandshakeOk
    /\ Len(sess.replies) = 1
    /\ sess.wrC # << >>

(***************************************************************************)
(* C3.  What the destination received is exactly the payload the client    *)
(* wrote, when the session is over and neither peer closed or reset its    *)
(* connection (and the poller neither failed nor reported a socket ready   *)
(* that was not).                                                          *)
(***************************************************************************)
C3_PayloadDeliveredExactly ==
    ( /\ SessionOver
      /\ RelayStarted
      /\ sess.relayErr # "poller"
      /\ ~sess.spurious
      /\ cstate = "open"
      /\ tstate = "open" )
    => tout = csent

(***************************************************************************)
(* C4.  After a handshake error (a short read, a command other than        *)
(* CONNECT, an address type other than IPv4 and domain, a name that is not *)
(* valid text, a failed write of the method response) no reply is          *)
(* written, no dial is attempted, the relay is not entered, and the        *)
(* session ends with the client socket shut down.                          *)
(***************************************************************************)
C4_HandshakeErrorNoReply ==
    HandshakeFailed =>
        /\ sess.replies = << >>
        /\ IsPrefix(cout, sess.response)
        /\ sess.dial = "none"
        /\ ~RelayStarted
        /\ pc \in {"client_shutdown", "done"}
        /\ (SessionOver => sess.clientShut)

\* a session ended by a request with an unsupported address type
C4_Witness ==
    /\ SessionOver
    /\ sess.why = "atyp"
    /\ sess.clientShut

(***************************************************************************)
(* C5.  After a failed dial the session calls reply() once, with status    *)
(* byte 0x01, never enters the relay, and ends with the client socket shut *)
(* down, also when the write of that reply fails.                          *)
(***************************************************************************)
C5_DialFailureReply ==
    sess.dial = "fail" =>
        /\ ~RelayStarted /\ ~RelayMovedBytes
        /\ pc \in {"reply_fail", "client_shutdown", "done"}
        /\ pc # "reply_fail" =>
              /\ Len(sess.replies) = 1
              /\ sess.replies[1].frame[2] = 1
              /\ sess.replies[1].ok =>
                    cout = sess.response \o sess.replies[1].frame
        /\ (SessionOver => sess.clientShut)

\* a session over after a failed dial whose failure reply could not be written
C5_Witness ==
    /\ SessionOver
    /\ sess.dial = "fail"
    /\ ~sess.replies[1].ok
    /\ sess.clientShut

(***************************************************************************)
(* C6.  A connect request whose domain name does not resolve is handled    *)
(* as an error of its session: the session takes the failure path of       *)
(* handle_client, replies GeneralSOCKSServerFailure (status 0x01), does    *)
(* not relay and shuts the client socket down.                             *)
(***************************************************************************)
C6_UnresolvedNameReplied ==
    sess.why = "resolve" =>
        /\ pc \in {"reply_fail", "client_shutdown", "done"}
        /\ ~RelayStarted
        /\ pc # "reply_fail" =>
              /\ Len(sess.replies) = 1
              /\ sess.replies[1].code = GeneralSOCKSServerFailture
        /\ (SessionOver => sess.clientShut)

(***************************************************************************)
(* C7.  The accept loop keeps running whatever happens to a connection:    *)
(* after a handshake error, a resolution failure, a dial failure, a        *)
(* reply-write failure and after the relay has returned, the process is    *)
(* still in a session that returns to listener.incoming().                 *)
(***************************************************************************)
C7_ListenerKeepsRunning ==
    ( \/ HandshakeFailed
      \/ sess.why = "resolve"
      \/ sess.dial = "fail"
      \/ (sess.replies # << >> /\ ~sess.replies[1].ok)
      \/ sess.relay \in {"ok", "err"} )
    => pc # "panicked"

(***************************************************************************)
(* C8.  A session in which the dial succeeded ends with both sockets shut  *)
(* down, the target socket first, whatever the outcome of the reply write  *)
(* and of the relay.                                                       *)
(***************************************************************************)
C8_BothSocketsShutDown ==
    sess.dial = "ok" =>
        /\ (SessionOver => sess.targetShut /\ sess.clientShut)
        /\ (sess.clientShut => sess.targetShut)
        /\ (pc = "client_shutdown" => sess.targetShut)

\* a session over whose relay ended by a write error
C8_Witness ==
    /\ SessionOver
    /\ sess.dial = "ok"
    /\ sess.relay = "err"
    /\ sess.relayErr = "wouldblock"
    /\ sess.targetShut /\ sess.clientShut

(***************************************************************************)
(* C9.  A connection that arrives while the current session is stalled is  *)
(* taken up: it does not stay in the backlog.                              *)
(***************************************************************************)
C9_SessionsIndependent == (Stalled /\ pending > 0) ~> (pending = 0)

(***************************************************************************)
(* C10.  A step of process_method on a message of version 5 with its N     *)
(* method bytes takes exactly the 2 + N bytes of the message from the      *)
(* client socket and passes exactly the bytes 5, 0 to write_all, whatever  *)
(* the N method bytes are; the client receives these two bytes, and the    *)
(* handshake goes on, unless the write fails because the client is gone.   *)
(***************************************************************************)
C10_MethodStep ==
    ( /\ pc = "method" /\ pc' # "method"
      /\ Len(cin) >= 2
      /\ cin[1] = 5
      /\ Len(cin) >= 2 + cin[2] )
    => /\ cin' = Drop(cin, 2 + cin[2])
       /\ Len(cin) - Len(cin') = 2 + cin[2]
       /\ sess'.response = << 5, 0 >>
       /\ pc' = "request" => cout' = cout \o << 5, 0 >>
       /\ pc' # "request" => cout' = cout /\ cstate # "open"

C10_MethodNegotiation == [][C10_MethodStep]_vars

\* process_method has answered a version 5 message
C10_Witness ==
    /\ pc = "request"
    /\ sess.method = "ok"
    /\ version = 5
    /\ sess.response = << 5, 0 >>
    /\ cout = << 5, 0 >>

(***************************************************************************)
(* C11.  Every frame reply() hands to write_all is the version byte, the   *)
(* status byte, a zero byte, the address type 0x01, four address octets    *)
(* and the port in two bytes, high byte first: ten bytes, for every        *)
(* address that reaches reply(), the address of a resolved domain name     *)
(* included.                                                               *)
(***************************************************************************)
C11_ReplyFrameLayout ==
    \A i \in 1..Len(sess.replies) :
        LET frame == sess.replies[i].frame IN
        /\ Len(frame) = 10
        /\ frame[1] = version
        /\ frame[2] = sess.replies[i].code
        /\ frame[3] = 0
        /\ frame[4] = ATYP_IPV4
        /\ SubSeq(frame, 5, 8) = target_addr.ip
        /\ SubSeq(frame, 9, 10) = ToBeBytes(target_addr.port)

(***************************************************************************)
(* C12.  A domain request whose length byte is 0, and one whose name is    *)
(* not valid UTF-8, make process_request return Err to handle_client: no   *)
(* reply is written, no dial is made, the client socket is shut down and   *)
(* the accept loop goes on.                                                *)
(***************************************************************************)
C12_BadDomainRejected ==
    sess.why \in {"noname", "utf8"} =>
        /\ sess.request = "err"
        /\ pc \in {"client_shutdown", "done"}
        /\ sess.replies = << >>
        /\ sess.dial = "none"
        /\ (SessionOver => sess.clientShut)

(***************************************************************************)
(* C13.  The address codec is a round trip.  Decoding then encoding: the   *)
(* address the IPv4 branch of process_request decodes from the six bytes   *)
(* of a request is encoded by reply() as the same six bytes.  Encoding     *)
(* then decoding: the four octets and two port bytes of a frame reply()    *)
(* emits for an IPv4 address and a port, read by the IPv4 branch of        *)
(* process_request, give back that address and that port, and the port is  *)
(* within 0..65535.                                                        *)
(***************************************************************************)
C13_CodecStep ==
    /\ ( /\ pc = "request" /\ pc' = "connect"
         /\ cin[4] = ATYP_IPV4 )
       => /\ target_addr'.kind = "v4"
          /\ target_addr'.port \in 0..65535
          /\ \A code \in {Succeeded, FailureCode} :
                SubSeq(ReplyFrame(version, code, target_addr'), 5, 10)
                    = SubSeq(cin, 5, 10)
    /\ ( /\ Len(sess'.replies) > Len(sess.replies)
         /\ target_addr.kind = "v4" )
       => LET frame   == sess'.replies[Len(sess'.replies)].frame
              decoded == RequestIpv4(SubSeq(frame, 5, 10), TRUE)
          IN  /\ decoded.st = "ok"
              /\ decoded.rest = << >>
              /\ decoded.addr = target_addr

C13_CodecRoundTrip == [][C13_CodecStep]_vars

\* the address 255.0.127.1 and the port 511 have been decoded and encoded
C13_Witness ==
    /\ pc = "serve"
    /\ target_addr = V4(<< 255, 0, 127, 1 >>, 511)
    /\ sess.replies[1].frame = << 5, 0, 0, 1, 255, 0, 127, 1, 1, 255 >>

(***************************************************************************)
(* The steps of the relay as the properties name them.                     *)
(***************************************************************************)
\* the relay handles the event at the head of the batch: one read of the
\* socket of that event, and the write of what was read
HandlesEvent(key) ==
    /\ pc = "events"
    /\ events # << >>
    /\ Head(events) = key
    /\ (events' = Tail(events) \/ pc' = "target_shutdown")

\* what that read returns
ClientRead == ReadOutcome(cin, cstate)

TargetRead == ReadOutcome(tin, tstate)

(***************************************************************************)
(* C14.  A read of the relay that returns WouldBlock, on a socket that was *)
(* reported ready and has nothing to read, is not an error: the step marks *)
(* neither side closed and the relay stays in its loop.                    *)
(***************************************************************************)
C14_WouldBlockStep ==
    ( \/ HandlesEvent(CLIENT_KEY) /\ ClientRead = "wouldblock"
      \/ HandlesEvent(TARGET_KEY) /\ TargetRead = "wouldblock" )
    => /\ client_closed' = client_closed
       /\ target_closed' = target_closed
       /\ pc' = "events"

C14_WouldBlockNotAnError == [][C14_WouldBlockStep]_vars

(***************************************************************************)
(* C15.  Once a read of the relay has returned zero bytes or an error,     *)
(* and so marked a side closed, the relay handles no further event: it     *)
(* reads from neither socket and writes no byte to either, also when the   *)
(* batch that held the event of the closed side holds an event of the      *)
(* other socket.  (Batches of sockets that were not readable are left      *)
(* aside.)                                                                 *)
(***************************************************************************)
C15_AfterCloseStep ==
    ( /\ pc = "events"
      /\ client_closed \/ target_closed
      /\ ~sess.spurious )
    => /\ ~HandlesEvent(CLIENT_KEY)
       /\ ~HandlesEvent(TARGET_KEY)
       /\ tout' = tout
       /\ cout' = cout

C15_NothingAfterClose == [][C15_AfterCloseStep]_vars

(***************************************************************************)
(* C16.  A read of the relay that returns 0 marks its side closed; from    *)
(* then on the relay enters no readiness wait: when the batch is done it   *)
(* returns; the session then shuts both sockets down, whatever the state   *)
(* of the other direction.  So, when the program is scheduled, a relay     *)
(* one of whose peers has closed its connection comes to an end.           *)
(***************************************************************************)
C16_ZeroReadStep ==
    /\ (HandlesEvent(CLIENT_KEY) /\ ClientRead = "zero") => client_closed'
    /\ (HandlesEvent(TARGET_KEY) /\ TargetRead = "zero") => target_closed'
    /\ (pc = "events" /\ (client_closed \/ target_closed)) =>
          /\ pc' \in {"events", "target_shutdown"}
          /\ (client_closed => client_closed') /\ (target_closed => target_closed')
          /\ (events = << >> /\ pc' # pc) => sess'.relay \in {"ok", "err"}

C16_ZeroReadEndsSession ==
    /\ [][C16_ZeroReadStep]_vars
    /\ (pc = "events" /\ (client_closed \/ target_closed))
          ~> (SessionOver /\ sess.targetShut /\ sess.clientShut)
    /\ (sess.relay = "running" /\ (cstate = "eof" \/ tstate = "eof"))
          ~> (sess.relay # "running")

\* the client closed, the relay returned Ok and the session is over with
\* both sockets shut down, while the destination is still connected and
\* bytes it sent were never read
C16_Witness ==
    /\ SessionOver
    /\ sess.relay = "ok"
    /\ cstate = "eof"
    /\ tstate = "open"
    /\ tin # << >>
    /\ sess.targetShut /\ sess.clientShut

(***************************************************************************)
(* C17.  While neither peer has closed, what is pending on a socket is     *)
(* read and relayed: a step of the relay that reads bytes from one socket  *)
(* delivers them to the other, and the relay does not leave its loop with  *)
(* bytes read and not relayed, or sent and not read.  (A failure of the    *)
(* poller and a report of a socket that was not readable are left aside.)  *)
(***************************************************************************)
C17_RelayStep ==
    ( /\ sess.relay = "running"
      /\ cstate = "open" /\ tstate = "open"
      /\ ~sess.spurious )
    => /\ (HandlesEvent(CLIENT_KEY) /\ ClientRead = "data") =>
             tout' = tout \o ReadChunk(cin)
       /\ (HandlesEvent(TARGET_KEY) /\ TargetRead = "data") =>
             cout' = cout \o ReadChunk(tin)
       /\ (sess'.relay # "running" /\ sess'.relayErr # "poller") =>
             /\ cin' = << >> /\ tin' = << >>
             /\ tout' = sess'.rdC
             /\ sess'.wrC = sess'.rdT

C17_PendingDataRelayed == [][C17_RelayStep]_vars

(***************************************************************************)
(* C18.  The handshake goes from the method step to the request step to    *)
(* the dial, and a failure is final.  process_request runs only after      *)
(* process_method returned Ok and its response was written, so no byte of  *)
(* the connect request is read before; the dial is made only after         *)
(* process_request returned Ok with an address; and once a step of the     *)
(* handshake has failed, the session reads nothing more from the client    *)
(* socket and writes nothing more to it: it only shuts it down.            *)
(***************************************************************************)
C18_HandshakeStep ==
    /\ (pc = "method" /\ pc' # pc) =>
          /\ pc' \in {"request", "client_shutdown"}
          /\ pc' = "request" =>
                /\ Len(cin) >= 2
                /\ cin' = Drop(cin, 2 + cin[2])
                /\ cout' = cout \o MethodResponse(cin[1])
    /\ (pc = "request" /\ pc' # pc) =>
          /\ sess.method = "ok"
          /\ cout = sess.response
          /\ pc' \in {"connect", "client_shutdown", "panicked"}
          /\ pc' = "connect" => sess'.request = "ok" /\ target_addr'.kind # "none"
    /\ (sess.dial = "none" /\ sess'.dial # "none") =>
          /\ pc = "connect"
          /\ HandshakeOk
          /\ target_addr.kind # "none"
    /\ (HandshakeFailed /\ pc # "done") =>
          /\ HandshakeFailed'
          /\ pc' \in {"client_shutdown", "done"}
          /\ cout' = cout
          /\ cin' = cin \/ cstate' = "reset"
          /\ sess'.dial = "none"

C18_HandshakeOrder == [][C18_HandshakeStep]_vars

\* the request was decoded after the method response was written, and the
\* dial is next
C18_Witness ==
    /\ pc = "connect"
    /\ HandshakeOk
    /\ cout = sess.response
    /\ cin = << >>
    /\ target_addr.kind = "v4"

(***************************************************************************)
(* C19.  In the relay, in both directions, the bytes written to a socket   *)
(* are a prefix of the bytes read from the other socket, which are a       *)
(* prefix of the bytes the peer sent: no byte is reordered, duplicated or  *)
(* invented, and none goes to the socket it came from.  This holds in      *)
(* every state, also when the relay ended by a read error, by a write      *)
(* error in the middle of a chunk, or by a close.                          *)
(***************************************************************************)
C19_RelayedBytesArePrefix ==
    /\ IsPrefix(tout, sess.rdC)
    /\ IsPrefix(sess.rdC, csent)
    /\ IsPrefix(sess.wrC, sess.rdT)
    /\ IsPrefix(sess.rdT, tsent)
    /\ csent = sess.rdC \o cin \/ cstate = "reset" \/ ~RelayStarted
    /\ tsent = sess.rdT \o tin \/ tstate = "reset"
    /\ RelayStarted => cout = sess.response \o sess.replies[1].frame \o sess.wrC
    /\ ~RelayStarted => tout = << >> /\ sess.wrC = << >>

\* the relay ended by a write error: three bytes were read from the client
\* and the write of the last chunk stopped before the third
C19_Witness ==
    /\ sess.relayErr = "wouldblock"
    /\ sess.rdC = << 101, 102, 103 >>
    /\ tout = << 101, 102 >>
    /\ cin = << >>
    /\ SessionOver

(***************************************************************************)
(* C20.  The version byte of the method response and of every reply frame  *)
(* is the first byte of the client's method-selection message, whatever    *)
(* that byte is: process_method answers a message of any version with      *)
(* that version, and process_request gives the same result whatever the    *)
(* version byte of the connect request and leaves the version alone.       *)
(***************************************************************************)
C20_Frames ==
    /\ sess.response # << >> => sess.response[1] = version \/ sess.method = "err"
    /\ sess.method = "ok" => sess.response = << version, NO_AUTH >>
    /\ \A i \in 1..Len(sess.replies) :
          /\ sess.replies[i].frame[1] = version
          /\ sess.replies[i].frame[1] = sess.response[1]
          /\ sess.replies[i].ok => cout[3] = cout[1]

C20_Step ==
    /\ (pc = "method" /\ pc' # pc /\ sess'.response # << >>) =>
          /\ sess'.response[1] = cin[1]
          /\ pc' = "request" => version' = cin[1] /\ cout' = << cin[1], NO_AUTH >>
    /\ (pc = "request" /\ pc' # pc) =>
          /\ version' = version
          /\ cin # << >> =>
                \A v \in 0..255, dns \in DnsOutcomes :
                   RequestRead(<< v >> \o Tail(cin), cstate # "open", dns)
                      = RequestRead(cin, cstate # "open", dns)
    /\ (pc \notin {"method", "accept", "done"}) => version' = version

C20_VersionEchoed == []C20_Frames /\ [][C20_Step]_vars

\* a session whose method message said version 4: both frames the client
\* received begin with 4
C20_Witness ==
    /\ SessionOver
    /\ version = 4
    /\ sess.response = << 4, 0 >>
    /\ Len(sess.replies) = 1
    /\ sess.replies[1].ok
    /\ sess.replies[1].frame[1] = 4
    /\ cout[1] = 4 /\ cout[3] = 4

====
